---- MODULE Spec2Model ----
(***************************************************************************)
(* A model of birthday_wish.py: one run of main(), from the process        *)
(* environment and birthdays.csv on disk to the lines printed on standard  *)
(* output, the relay sessions opened and the process exit status.          *)
(*                                                                         *)
(* Library behaviour the script relies on (pandas, smtplib) is modelled    *)
(* by what the library does at the call the script makes:                  *)
(*  - pd.read_csv(..., parse_dates=["DateOfBirth"]) raises ValueError when *)
(*    the DateOfBirth column is absent; it leaves the column as strings    *)
(*    (dtype object) when some value cannot be parsed as a date; an empty  *)
(*    field becomes NaT; a file with a header and no data row yields the   *)
(*    empty frame whose columns all have dtype object.                     *)
(*  - Series.dt raises AttributeError on a column that is not datetime.    *)
(*  - smtplib.SMTP_SSL(...) raises OSError (ConnectionRefusedError), which *)
(*    is not an SMTPException, when the relay cannot be reached; the       *)
(*    `with` block closes the session on every way out of it.              *)
(***************************************************************************)
EXTENDS Integers, Sequences, FiniteSets

\* ------------------------------------------------------------- bounds
MaxRows == 3

\* ------------------------------------------------------- input domains
Years == {2000, 2001}
MonthDays == {<<2, 28>>, <<2, 29>>, <<6, 29>>}
\* The people of the file, in the order of its rows.
Roster == <<"A", "B", "C", "D", "E">>
AddressValues == {"", "me@gmail.com"}
PasswordValues == {"", "app-pw"}

IsLeap(y) == (y % 4 = 0 /\ y % 100 # 0) \/ y % 400 = 0

DaysInMonth(y, m) ==
  IF m = 2 THEN (IF IsLeap(y) THEN 29 ELSE 28)
  ELSE IF m \in {4, 6, 9, 11} THEN 30 ELSE 31

\* A calendar date exists.
ValidDate(y, m, d) == m \in 1..12 /\ d \in 1..DaysInMonth(y, m)

\* The text of one DateOfBirth field of the file: empty, or "y-m-d".
RawCells ==
  {[empty |-> TRUE, year |-> 0, month |-> 0, day |-> 0]} \cup
  {[empty |-> FALSE, year |-> y, month |-> md[1], day |-> md[2]] :
     y \in Years, md \in MonthDays}

EmailOf(n) ==
  CASE n = "A" -> "a@x.com" [] n = "B" -> "b@x.com" [] n = "C" -> "c@x.com"
    [] n = "D" -> "d@x.com" [] OTHER -> "e@x.com"

\* The data rows a file of n rows may hold: row j is about Roster[j], with any
\* DateOfBirth field.
RowsOf(n) ==
  {[j \in 1..n |-> [Name |-> Roster[j], DateOfBirth |-> cells[j],
                    Email |-> EmailOf(Roster[j])]] : cells \in [1..n -> RawCells]}

RowsUpTo(n) == UNION {RowsOf(k) : k \in 0..n}

AllColumns == {"Name", "DateOfBirth", "Email"}

\* birthdays.csv as it is on disk when the run starts.
CsvFiles ==
  {[kind |-> k, columns |-> {}, rows |-> <<>>] :
     k \in {"missing", "unreadable", "unparseable"}} \cup
  {[kind |-> "table", columns |-> AllColumns, rows |-> r] :
     r \in RowsUpTo(MaxRows)} \cup
  {[kind |-> "table", columns |-> c, rows |-> r] :
     c \in (SUBSET AllColumns) \ {AllColumns}, r \in RowsUpTo(1)}

\* datetime.now(): some calendar date.
Todays ==
  {[year |-> p[1], month |-> p[2][1], day |-> p[2][2]] :
     p \in {q \in Years \X MonthDays : ValidDate(q[1], q[2][1], q[2][2])}}

VARIABLES
  env,              \* the process environment (after load_dotenv)
  csv,              \* birthdays.csv
  pc,               \* main's position
  creds,            \* (sender_email, app_password)
  df,               \* the frame read_birthdays returned
  today,            \* the date get_todays_birthday_people read
  birthday_people,  \* the filtered frame: <<index label, row>> in order
  i,                \* the send loop's position in birthday_people (1-based)
  email_msg,        \* the message of the current iteration
  sessions,         \* every relay session opened, in order
  attempts,         \* every call of send_email: the recipient's position
  results,          \* what became of each call of send_email
  stdout,           \* the lines printed
  raised,           \* the exception that reached main's outer handler
  calls,            \* the functions main has called
  exitStatus        \* the process exit status

vars == <<env, csv, pc, creds, df, today, birthday_people, i, email_msg,
          sessions, attempts, results, stdout, raised, calls, exitStatus>>

NoException == [kind |-> "", in |-> ""]
NoDate == [year |-> 0, month |-> 0, day |-> 0]
NoFrame == [dtype |-> "", rows |-> <<>>]
NoMessage == [Subject |-> "", From |-> "", To |-> "", body |-> ""]
NoCreds == [sender_email |-> "", app_password |-> ""]

\* ------------------------------------------------------ printed lines
SuccessLine(name, email) ==
  [kind |-> "success", name |-> name, email |-> email, text |-> ""]

\* print(e) of "Failed to send email to <To>: <e>"
FailedLine(to, why) ==
  [kind |-> "failed", name |-> "", email |-> to, text |-> why]

\* print(f"Error: {e}")
ErrorLine(e) ==
  [kind |-> "Error", name |-> "", email |-> "", text |-> e.kind]

NoBirthdaysLine ==
  [kind |-> "no_birthdays", name |-> "", email |-> "", text |-> ""]

\* ------------------------------------------------- load_env_variables
CredentialsMissingAnd(email_address, app_password) ==
  email_address = "" /\ app_password = ""

\* `not email_address or not app_password`: unset and empty are both falsy.
CredentialsMissing(email_address, app_password) ==
  email_address = "" \/ app_password = ""

load_env_variables(e) ==
  IF CredentialsMissing(e.GMAIL_ADDRESS, e.GMAIL_APP_PASSWORD)
  THEN [raises |-> "EnvironmentError", value |-> NoCreds]
  ELSE [raises |-> "",
        value |-> [sender_email |-> e.GMAIL_ADDRESS,
                   app_password |-> e.GMAIL_APP_PASSWORD]]

\* ----------------------------------------------------- read_birthdays
\* The date parser accepts an empty field and a date of the calendar.
Parseable(c) == c.empty \/ ValidDate(c.year, c.month, c.day)

\* The missing value of a datetime column.
NaT == [kind |-> "NaT", year |-> 0, month |-> 0, day |-> 0]

\* One parsed value of the column: a Timestamp, or NaT for an empty field.
to_datetime(c) ==
  IF c.empty
  THEN NaT
  ELSE [kind |-> "Timestamp", year |-> c.year, month |-> c.month, day |-> c.day]

\* The value kept as the string it was read as.
as_str(c) ==
  [kind |-> "str", year |-> c.year, month |-> c.month, day |-> c.day]

\* A reading of the column that turns what it cannot parse into NaT.
ParseDatesCoerce(rows) ==
  [dtype |-> "datetime64",
   rows |-> [j \in 1..Len(rows) |->
              [rows[j] EXCEPT !.DateOfBirth = IF Parseable(@) THEN to_datetime(@) ELSE NaT]]]

\* parse_dates=["DateOfBirth"]: the column becomes datetime64 only when there
\* is a data row and every value parses; otherwise it stays dtype object.
ParseDates(rows) ==
  IF Len(rows) = 0 THEN [dtype |-> "object", rows |-> <<>>]
  ELSE IF \E j \in 1..Len(rows) : ~Parseable(rows[j].DateOfBirth)
  THEN [dtype |-> "object",
        rows |-> [j \in 1..Len(rows) |-> [rows[j] EXCEPT !.DateOfBirth = as_str(@)]]]
  ELSE [dtype |-> "datetime64",
        rows |-> [j \in 1..Len(rows) |-> [rows[j] EXCEPT !.DateOfBirth = to_datetime(@)]]]

\* pd.read_csv(csv_file, parse_dates=["DateOfBirth"])
read_csv(file) ==
  IF file.kind = "missing" THEN [raises |-> "FileNotFoundError", value |-> NoFrame]
  ELSE IF file.kind = "unreadable" THEN [raises |-> "PermissionError", value |-> NoFrame]
  ELSE IF file.kind = "unparseable" THEN [raises |-> "ParserError", value |-> NoFrame]
  ELSE IF "DateOfBirth" \notin file.columns
  THEN [raises |-> "ValueError", value |-> NoFrame]
  ELSE [raises |-> "", value |-> ParseDates(file.rows)]

MissingRequiredNameOnly(columns) == ~({"Name"} \subseteq columns)

\* `not required_columns.issubset(df.columns)`
MissingRequired(columns) == ~({"Name", "DateOfBirth", "Email"} \subseteq columns)

read_birthdays(file) ==
  LET r == read_csv(file)
  IN IF r.raises # "" THEN r
     ELSE IF MissingRequired(file.columns)
     THEN [raises |-> "ValueError", value |-> NoFrame]
     ELSE r

\* ----------------------------------------- get_todays_birthday_people
IsBirthdayMonthOnly(dob, t) == dob.kind = "Timestamp" /\ dob.month = t.month

\* (dt.month == today.month) & (dt.day == today.day); NaT compares False.
IsBirthday(dob, t) ==
  dob.kind = "Timestamp" /\ dob.month = t.month /\ dob.day = t.day

\* df[mask]: the rows whose mask is True, with their index labels, in order.
RECURSIVE BooleanIndex(_, _, _)
BooleanIndex(rows, t, j) ==
  IF j > Len(rows) THEN <<>>
  ELSE (IF IsBirthday(rows[j].DateOfBirth, t)
        THEN <<[index |-> j - 1, row |-> rows[j]]>> ELSE <<>>)
       \o BooleanIndex(rows, t, j + 1)

get_todays_birthday_people(frame, t) ==
  IF frame.dtype # "datetime64"
  THEN [raises |-> "AttributeError", value |-> <<>>]
  ELSE [raises |-> "", value |-> BooleanIndex(frame.rows, t, 1)]

\* ---------------------------------------------- create_birthday_email
create_birthday_email(sender_email, recipient_email, recipient_name) ==
  [Subject |-> "Happy Birthday!", From |-> sender_email,
   To |-> recipient_email, body |-> recipient_name]

\* --------------------------------------------------------- send_email
SmtpExitLeak(ss) == ss

\* Leaving the `with` block: the last session opened is closed.
SmtpExit(ss) == [ss EXCEPT ![Len(ss)].open = FALSE]

\* What the relay may answer at each step of send_email.
ConnectOutcomes == {"ok", "SMTPConnectError", "ConnectionRefusedError"}
LoginOutcomes == {"ok", "SMTPAuthenticationError"}
SendOutcomes == {"ok", "SMTPRecipientsRefused"}

\* `except smtplib.SMTPException`: the exception classes it catches.
IsSMTPException(kind) ==
  kind \in {"SMTPConnectError", "SMTPAuthenticationError", "SMTPRecipientsRefused"}

\* --------------------------------------------------------------- main
iterrows_retry(k) == k

\* The for loop goes on to the next row.
iterrows_next(k) == k + 1

ProcessExitStatus == 0

Init ==
  /\ env \in [GMAIL_ADDRESS : AddressValues, GMAIL_APP_PASSWORD : PasswordValues]
  /\ csv \in CsvFiles
  /\ pc = "start"
  /\ creds = NoCreds
  /\ df = NoFrame
  /\ today = NoDate
  /\ birthday_people = <<>>
  /\ i = 0
  /\ email_msg = NoMessage
  /\ sessions = <<>>
  /\ attempts = <<>>
  /\ results = <<>>
  /\ stdout = <<>>
  /\ raised = NoException
  /\ calls = <<>>
  /\ exitStatus = -1

\* `except Exception as e: print(f"Error: {e}")`, then main returns.
MainExcept(e) ==
  /\ raised' = e
  /\ stdout' = Append(stdout, ErrorLine(e))
  /\ pc' = "returned"

\* line 129
LoadEnv ==
  /\ pc = "start"
  /\ calls' = Append(calls, "load_env_variables")
  /\ LET r == load_env_variables(env)
     IN IF r.raises # ""
        THEN /\ MainExcept([kind |-> r.raises, in |-> "load_env_variables"])
             /\ UNCHANGED creds
        ELSE /\ creds' = r.value
             /\ pc' = "read"
             /\ UNCHANGED <<raised, stdout>>
  /\ UNCHANGED <<env, csv, df, today, birthday_people, i, email_msg, sessions,
                 attempts, results, exitStatus>>

\* line 130
ReadBirthdays ==
  /\ pc = "read"
  /\ calls' = Append(calls, "read_birthdays")
  /\ LET r == read_birthdays(csv)
     IN IF r.raises # ""
        THEN /\ MainExcept([kind |-> r.raises, in |-> "read_birthdays"])
             /\ UNCHANGED df
        ELSE /\ df' = r.value
             /\ pc' = "filter"
             /\ UNCHANGED <<raised, stdout>>
  /\ UNCHANGED <<env, csv, creds, today, birthday_people, i, email_msg, sessions,
                 attempts, results, exitStatus>>

\* line 131
GetTodaysBirthdayPeople ==
  /\ pc = "filter"
  /\ calls' = Append(calls, "get_todays_birthday_people")
  /\ \E t \in Todays :
       /\ today' = t
       /\ LET r == get_todays_birthday_people(df, t)
          IN IF r.raises # ""
             THEN /\ MainExcept([kind |-> r.raises,
                                 in |-> "get_todays_birthday_people"])
                  /\ UNCHANGED birthday_people
             ELSE /\ birthday_people' = r.value
                  /\ pc' = "empty_check"
                  /\ UNCHANGED <<raised, stdout>>
  /\ UNCHANGED <<env, csv, creds, df, i, email_msg, sessions, attempts, results,
                 exitStatus>>

\* lines 133-135
CheckEmpty ==
  /\ pc = "empty_check"
  /\ IF Len(birthday_people) = 0
     THEN /\ stdout' = Append(stdout, NoBirthdaysLine)
          /\ pc' = "returned"
          /\ UNCHANGED i
     ELSE /\ i' = 1
          /\ pc' = "loop"
          /\ UNCHANGED stdout
  /\ UNCHANGED <<env, csv, creds, df, today, birthday_people, email_msg, sessions,
                 attempts, results, raised, calls, exitStatus>>

\* lines 137-140: the next row, its message, and the call of send_email.
Compose ==
  /\ pc = "loop"
  /\ IF i > Len(birthday_people)
     THEN /\ pc' = "returned"
          /\ UNCHANGED <<email_msg, attempts>>
     ELSE LET person == birthday_people[i].row
          IN /\ email_msg' = create_birthday_email(creds.sender_email,
                                                   person.Email, person.Name)
             /\ attempts' = Append(attempts, i)
             /\ pc' = "connect"
  /\ UNCHANGED <<env, csv, creds, df, today, birthday_people, i, sessions, results,
                 stdout, raised, calls, exitStatus>>

\* lines 119-120 and 142-143: an SMTPException is re-raised by send_email,
\* caught by the loop's handler and printed; the loop goes on.
SmtpFailure(why) ==
  /\ stdout' = Append(stdout, FailedLine(email_msg.To, why))
  /\ results' = Append(results, "failed")
  /\ i' = iterrows_next(i)
  /\ pc' = "loop"
  /\ UNCHANGED raised

\* Any other exception passes both SMTPException handlers and reaches the
\* outer handler of main, which ends the loop.
OtherFailure(why) ==
  /\ MainExcept([kind |-> why, in |-> "send_email"])
  /\ results' = Append(results, "failed")
  /\ UNCHANGED i

Failure(why) ==
  IF IsSMTPException(why) THEN SmtpFailure(why) ELSE OtherFailure(why)

\* line 116: smtplib.SMTP_SSL("smtp.gmail.com", 465)
Connect ==
  /\ pc = "connect"
  /\ \E o \in ConnectOutcomes :
       IF o = "ok"
       THEN /\ sessions' = Append(sessions,
                 [to |-> email_msg.To, attempt |-> Len(attempts),
                  open |-> TRUE, authenticated |-> FALSE])
            /\ pc' = "login"
            /\ UNCHANGED <<i, results, stdout, raised>>
       ELSE /\ Failure(o)
            /\ UNCHANGED sessions
  /\ UNCHANGED <<env, csv, creds, df, today, birthday_people, email_msg, attempts,
                 calls, exitStatus>>

\* line 117: smtp.login(email_address, app_password)
Login ==
  /\ pc = "login"
  /\ \E o \in LoginOutcomes :
       IF o = "ok"
       THEN /\ sessions' = [sessions EXCEPT ![Len(sessions)].authenticated = TRUE]
            /\ pc' = "send"
            /\ UNCHANGED <<i, results, stdout, raised>>
       ELSE /\ sessions' = SmtpExit(sessions)
            /\ Failure(o)
  /\ UNCHANGED <<env, csv, creds, df, today, birthday_people, email_msg, attempts,
                 calls, exitStatus>>

\* lines 118 and 141: smtp.send_message(message), then the success line.
SendMessage ==
  /\ pc = "send"
  /\ \E o \in SendOutcomes :
       IF o = "ok"
       THEN /\ sessions' = SmtpExit(sessions)
            /\ results' = Append(results, "sent")
            /\ stdout' = Append(stdout,
                 SuccessLine(birthday_people[i].row.Name, birthday_people[i].row.Email))
            /\ i' = iterrows_next(i)
            /\ pc' = "loop"
            /\ UNCHANGED raised
       ELSE /\ sessions' = SmtpExit(sessions)
            /\ Failure(o)
  /\ UNCHANGED <<env, csv, creds, df, today, birthday_people, email_msg, attempts,
                 calls, exitStatus>>

\* line 150: main() has returned; the interpreter exits.
Exit ==
  /\ pc = "returned"
  /\ pc' = "done"
  /\ exitStatus' = ProcessExitStatus
  /\ UNCHANGED <<env, csv, creds, df, today, birthday_people, i, email_msg,
                 sessions, attempts, results, stdout, raised, calls>>

Next ==
  \/ LoadEnv
  \/ ReadBirthdays
  \/ GetTodaysBirthdayPeople
  \/ CheckEmpty
  \/ Compose
  \/ Connect
  \/ Login
  \/ SendMessage
  \/ Exit

Spec == Init /\ [][Next]_vars

\* ------------------------------------------------------------- claims
Called(f) == \E k \in 1..Len(calls) : calls[k] = f

Finished == pc \in {"returned", "done"}

\* The inputs of the run, read off the environment and the file themselves.
CredentialAbsent == env.GMAIL_ADDRESS = "" \/ env.GMAIL_APP_PASSWORD = ""

ColumnAbsent == csv.kind = "table" /\ AllColumns \ csv.columns # {}

MalformedDate ==
  /\ csv.kind = "table"
  /\ AllColumns \subseteq csv.columns
  /\ \E j \in 1..Len(csv.rows) :
       LET c == csv.rows[j].DateOfBirth
       IN ~c.empty /\ ~ValidDate(c.year, c.month, c.day)

StartupFault ==
  CredentialAbsent \/ csv.kind # "table" \/ ColumnAbsent \/ MalformedDate

\* Row j of the file was born on the month and day of t.
BornOn(j, t) ==
  LET c == csv.rows[j].DateOfBirth
  IN ~c.empty /\ c.month = t.month /\ c.day = t.day

FilterReturned ==
  Called("get_todays_birthday_people") /\ raised.in # "get_todays_birthday_people"

\* C1: in main's send loop, whichever sends fail and however they fail, a send
\* is attempted for every matched recipient: once the run is over, send_email
\* has been called for each row of birthday_people.
C1_EveryRecipientAttempted ==
  (Finished /\ Len(birthday_people) > 0) => Len(attempts) = Len(birthday_people)

\* C2: a run that reaches the send loop with n matched recipients prints
\* exactly n lines, in the recipients' order: line k is the success line with
\* recipient k's name and address exactly when send k succeeded, a failure
\* report for recipient k otherwise, and no failure is printed outside them.
C2_OneOutcomePerRecipient ==
  (Finished /\ Len(birthday_people) > 0) =>
    /\ Len(stdout) = Len(birthday_people)
    /\ Len(results) = Len(birthday_people)
    /\ \A k \in 1..Len(birthday_people) :
         /\ k <= Len(stdout)
         /\ k <= Len(results)
         /\ IF results[k] = "sent"
            THEN stdout[k] = SuccessLine(birthday_people[k].row.Name,
                                         birthday_people[k].row.Email)
            ELSE /\ stdout[k].kind = "failed"
                 /\ stdout[k].email = birthday_people[k].row.Email

C4_StartupFaultSendsNothing ==
  StartupFault =>
    /\ sessions = <<>>
    /\ attempts = <<>>
    /\ Len(stdout) <= 1
    /\ \A k \in 1..Len(stdout) : stdout[k].kind = "Error"
    /\ (Finished => Len(stdout) = 1)
    /\ (CredentialAbsent => ~Called("read_birthdays"))

\* Only the password is absent, and the file holds two rows.
C4_Witness ==
  /\ pc = "done"
  /\ env.GMAIL_ADDRESS # ""
  /\ env.GMAIL_APP_PASSWORD = ""
  /\ csv.kind = "table"
  /\ AllColumns \subseteq csv.columns
  /\ Len(csv.rows) = 2
  /\ ~MalformedDate
  /\ Len(stdout) = 1

\* C5: whenever a startup fault occurs, the process ends with a non-zero exit
\* status.
C5_StartupFaultExitsNonZero ==
  (pc = "done" /\ StartupFault) => exitStatus # 0

\* C6: loading a file whose header lacks Name, DateOfBirth or Email makes
\* read_birthdays fail with ValueError, the missing-columns kind, where a
\* missing file fails with FileNotFoundError and an unparseable one with
\* ParserError; and the birthday filter is never executed in that run.
C6_SchemaError ==
  Called("read_birthdays") /\ pc # "read" =>
    /\ ColumnAbsent =>
         /\ raised = [kind |-> "ValueError", in |-> "read_birthdays"]
         /\ ~Called("get_todays_birthday_people")
         /\ today = NoDate
    /\ csv.kind = "missing" =>
         raised = [kind |-> "FileNotFoundError", in |-> "read_birthdays"]
    /\ csv.kind = "unparseable" =>
         raised = [kind |-> "ParserError", in |-> "read_birthdays"]

\* The Email column is absent from a file of one row.
C6_Witness ==
  /\ pc = "done"
  /\ csv.kind = "table"
  /\ csv.columns = {"Name", "DateOfBirth"}
  /\ Len(csv.rows) = 1
  /\ raised.kind = "ValueError"

\* C7 as stated: if a row has a malformed DateOfBirth, read_birthdays itself
\* fails: no dataset is returned and the filter is never invoked.
C7_LoadFailsOnMalformedDate ==
  (MalformedDate /\ Called("read_birthdays") /\ pc # "read") =>
    /\ raised.in = "read_birthdays"
    /\ df = NoFrame
    /\ ~Called("get_todays_birthday_people")

\* C7 as amended: if a row has a malformed DateOfBirth, read_birthdays
\* returns the whole dataset with the DateOfBirth column left as the strings
\* read; the filter invoked on it raises AttributeError, so no row is matched,
\* no send is attempted and the finished run has printed one Error line.
C7_RunFailsOnMalformedDate ==
  (MalformedDate /\ Called("read_birthdays") /\ pc # "read") =>
    /\ df.dtype = "object"
    /\ Len(df.rows) = Len(csv.rows)
    /\ \A j \in 1..Len(df.rows) : df.rows[j].DateOfBirth.kind = "str"
    /\ Called("get_todays_birthday_people") =>
         raised = [kind |-> "AttributeError", in |-> "get_todays_birthday_people"]
    /\ birthday_people = <<>>
    /\ attempts = <<>>
    /\ sessions = <<>>
    /\ Finished => stdout = <<ErrorLine([kind |-> "AttributeError"])>>

\* Feb 29 2001 beside a row born on the reference date.
C7_Witness ==
  /\ pc = "done"
  /\ MalformedDate
  /\ Len(csv.rows) = 2
  /\ BornOn(1, today)
  /\ raised.in = "get_todays_birthday_people"

\* C8: for a well-formed dataset with no row born on the reference month and
\* day, a dataset of zero rows included, the filter returns the empty sequence
\* without error and the run prints the one 'no birthdays today' line and
\* attempts no send; and that line is printed in no run with a match.
C8_NoMatchPrintsSummary ==
  (~StartupFault /\ Called("get_todays_birthday_people") /\ pc # "filter") =>
    IF \A j \in 1..Len(csv.rows) : ~BornOn(j, today)
    THEN /\ raised = NoException
         /\ birthday_people = <<>>
         /\ attempts = <<>>
         /\ Finished => stdout = <<NoBirthdaysLine>>
    ELSE \A k \in 1..Len(stdout) : stdout[k] # NoBirthdaysLine

\* C9: send_email is called only for matched recipients, in dataset order and
\* at most once each: the k-th call is for the k-th row of birthday_people,
\* which was born on the reference month and day, and every session opened is
\* to the address of the row of its call.
C9_SendsOnlyToMatchesOnce ==
  /\ Len(attempts) <= Len(birthday_people)
  /\ \A k \in 1..Len(attempts) :
       /\ attempts[k] = k
       /\ k <= Len(birthday_people)
       /\ BornOn(birthday_people[k].index + 1, today)
  /\ \A k \in 1..(Len(birthday_people) - 1) :
       birthday_people[k].index < birthday_people[k + 1].index
  /\ \A k \in 1..Len(sessions) :
       /\ sessions[k].attempt \in 1..Len(attempts)
       /\ sessions[k].attempt <= Len(birthday_people)
       /\ sessions[k].to = csv.rows[birthday_people[sessions[k].attempt].index + 1].Email
  /\ Len(results) <= Len(attempts)

\* Three rows of which the first and the last match; the first send fails and
\* the second succeeds.
C9_Witness ==
  /\ pc = "done"
  /\ Len(csv.rows) = 3
  /\ Len(birthday_people) = 2
  /\ birthday_people[2].index = 2
  /\ results = <<"failed", "sent">>
  /\ attempts = <<1, 2>>

\* C10: at most one relay session is open at any point; a session is open
\* only between its connect and the end of its own send_email, so it is closed
\* before the next one is opened and none is open when the run ends; and no
\* session serves two calls of send_email.
C10_OneSessionPerSend ==
  /\ Cardinality({k \in 1..Len(sessions) : sessions[k].open}) <= 1
  /\ \A k \in 1..Len(sessions) :
       sessions[k].open => (k = Len(sessions) /\ pc \in {"login", "send"})
  /\ \A k \in 1..(Len(sessions) - 1) : sessions[k].attempt < sessions[k + 1].attempt
  /\ Len(sessions) <= Len(attempts)
  /\ pc \in {"login", "send"} =>
       /\ Len(sessions) > 0
       /\ sessions[Len(sessions)].open
       /\ sessions[Len(sessions)].attempt = Len(attempts)

\* Two sessions: the first closed by a rejected login, the second after its
\* message was accepted.
C10_Witness ==
  /\ pc = "done"
  /\ Len(sessions) = 2
  /\ ~sessions[1].authenticated
  /\ sessions[2].authenticated
  /\ sessions[1].to # sessions[2].to
  /\ results = <<"failed", "sent">>

====
